---- MODULE Spec2Model ----
(***************************************************************************)
(* Model of main.py: the frame pipeline (append_video, append_image, cut,  *)
(* to_grayscale, ensure_3channel, blur_frames, overlay_text), the engine   *)
(* apply_pipeline, and the sinks save_video and play_video.                *)
(*                                                                         *)
(* Python lists hold references.  A frame (a numpy array) is an object of  *)
(* the heap: `heap` maps an object id (1..Len(heap)) to the frame's        *)
(* content, and a frame list is a sequence of object ids.  An operation    *)
(* that builds a new array allocates a new id; cv2.putText draws into the  *)
(* array it is given and changes heap[id].                                 *)
(***************************************************************************)
EXTENDS Integers, Sequences, FiniteSets, TLC

\* ---------------------------------------------------------------- bounds
MaxLen == 2      \* longest initial frame list drawn in Init
MaxArg == 3      \* largest start / count of a drawn cut step
MaxSteps == 2    \* longest drawn pipeline

\* ------------------------------------------------------- frames and files
\* A decoded frame: tag names the picture, ch is 1 for a 2-D (grayscale)
\* array and 3 for a BGR array, blur lists the kernels applied to it, text
\* lists the labels drawn into it.
Frame(tag, ch) == [tag |-> tag, ch |-> ch, blur |-> <<>>, text |-> <<>>]

\* cv2.VideoCapture(path): whether cap.isOpened(), and the frames that
\* cap.read() yields until ret is false.  Decoded video frames are BGR.
VideoCapture(video_path) ==
    CASE video_path = "maw.webm" ->
            [isOpened |-> TRUE, read |-> <<Frame(100, 3), Frame(101, 3)>>]
      [] video_path = "blank.webm" -> [isOpened |-> TRUE, read |-> <<>>]
      [] OTHER -> [isOpened |-> FALSE, read |-> <<>>]

\* cv2.imread(path): whether the result is None, and the decoded BGR image.
imread(image_path) ==
    CASE image_path = "huh.png" -> [isNone |-> FALSE, img |-> <<Frame(200, 3)>>]
      [] OTHER -> [isNone |-> TRUE, img |-> <<>>]

VideoPaths == {"maw.webm", "blank.webm", "missing.webm"}
ImagePaths == {"huh.png", "drool.gif"}

\* ----------------------------------------------------------- Python lists
Max(a, b) == IF a >= b THEN a ELSE b
Min(a, b) == IF a <= b THEN a ELSE b

\* Python's normalisation of a slice bound: a negative bound counts from
\* the end, and the outcome is clamped into [0, n].
SliceIndex(i, n) == IF i < 0 THEN Max(0, i + n) ELSE Min(i, n)

\* s[lo:hi] with Python's 0-based bounds.
Slice(s, lo, hi) ==
    LET a == SliceIndex(lo, Len(s))
        b == SliceIndex(hi, Len(s))
    IN  IF a >= b THEN <<>> ELSE SubSeq(s, a + 1, b)

\* s[:hi] and s[lo:]
SliceTo(s, hi) == Slice(s, 0, hi)
SliceFrom(s, lo) == Slice(s, lo, Len(s))

\* the ids of k objects allocated after the heap h
NewIds(h, k) == [i \in 1..k |-> Len(h) + i]

\* the result of a call: the exception raised ("none" when it returns),
\* the heap after the call and the list returned
Return(h, frames) == [raised |-> "none", heap |-> h, frames |-> frames]
Raise(exc, h, frames) == [raised |-> exc, heap |-> h, frames |-> frames]

\* -------------------------------------------------------- pipeline filters
\* append_video returning only what was decoded when the source is closed
append_video_dropping(h, frames, video_path) ==
    LET cap == VideoCapture(video_path)
        new_frames == cap.read
    IN  IF ~cap.isOpened
        THEN Return(h, new_frames)
        ELSE Return(h \o new_frames, frames \o NewIds(h, Len(new_frames)))

append_video(h, frames, video_path) ==
    LET cap == VideoCapture(video_path)
        new_frames == cap.read
    IN  IF ~cap.isOpened
        THEN Return(h, frames)
        ELSE Return(h \o new_frames, frames \o NewIds(h, Len(new_frames)))

\* append_image putting the image in front
append_image_at_head(h, frames, image_path) ==
    LET img == imread(image_path)
    IN  IF img.isNone
        THEN Return(h, frames)
        ELSE Return(h \o img.img, NewIds(h, 1) \o frames)

append_image(h, frames, image_path) ==
    LET img == imread(image_path)
    IN  IF img.isNone
        THEN Return(h, frames)
        ELSE Return(h \o img.img, frames \o NewIds(h, 1))

\* cut with start_idx left negative when count exceeds the frames in front
cut_unclamped(h, frames, start, count) ==
    IF ~(start >= 0 /\ count >= 0)
    THEN Raise("AssertionError", h, frames)
    ELSE LET end_idx == Len(frames) - start
             start_idx == end_idx - count
         IN  Return(h, SliceTo(frames, start_idx) \o SliceFrom(frames, end_idx))

\* cut that clamps negative arguments to 0 where the source asserts
cut_clamping(h, frames, start, count) ==
    LET end_idx == Len(frames) - Max(0, start)
        start_idx == Max(0, end_idx - Max(0, count))
    IN  Return(h, SliceTo(frames, start_idx) \o SliceFrom(frames, end_idx))

\* cut with the window measured from the head of the list
cut_from_head(h, frames, start, count) ==
    IF ~(start >= 0 /\ count >= 0)
    THEN Raise("AssertionError", h, frames)
    ELSE LET end_idx == start
             start_idx == Max(0, end_idx - count)
         IN  Return(h, SliceTo(frames, start_idx) \o SliceFrom(frames, end_idx))

\* cut removing one frame more than count
cut_one_more(h, frames, start, count) ==
    IF ~(start >= 0 /\ count >= 0)
    THEN Raise("AssertionError", h, frames)
    ELSE LET end_idx == Len(frames) - start
             start_idx == Max(0, end_idx - count - 1)
         IN  Return(h, SliceTo(frames, start_idx) \o SliceFrom(frames, end_idx))

\* cut with the window opened towards the tail: start_idx beyond end_idx
cut_sign_error(h, frames, start, count) ==
    IF ~(start >= 0 /\ count >= 0)
    THEN Raise("AssertionError", h, frames)
    ELSE LET end_idx == Len(frames) - start
             start_idx == Max(0, end_idx + count)
         IN  Return(h, SliceTo(frames, start_idx) \o SliceFrom(frames, end_idx))

cut(h, frames, start, count) ==
    IF ~(start >= 0 /\ count >= 0)
    THEN Raise("AssertionError", h, frames)
    ELSE LET end_idx == Len(frames) - start
             start_idx == Max(0, end_idx - count)
         IN  Return(h, SliceTo(frames, start_idx) \o SliceFrom(frames, end_idx))

\* cv2.cvtColor(f, COLOR_BGR2GRAY) rejects an array that has no 3 channels
to_grayscale(h, frames) ==
    IF \E i \in DOMAIN frames : h[frames[i]].ch # 3
    THEN Raise("cv2.error", h, frames)
    ELSE Return(h \o [i \in DOMAIN frames |-> [h[frames[i]] EXCEPT !.ch = 1]],
                NewIds(h, Len(frames)))

\* positions of the 2-D frames of the list, in order
GrayPositions(h, frames) ==
    SelectSeq([i \in DOMAIN frames |-> i], LAMBDA i : h[frames[i]].ch = 1)

\* ensure_3channel with the shape test inverted: 2-D frames stay as they are
ensure_3channel_inverted(h, frames) ==
    IF \E i \in DOMAIN frames : h[frames[i]].ch = 3
    THEN Raise("cv2.error", h, frames)
    ELSE Return(h, frames)

ensure_3channel(h, frames) ==
    LET gray == GrayPositions(h, frames)
        converted == [k \in DOMAIN gray |-> [h[frames[gray[k]]] EXCEPT !.ch = 3]]
        rank(i) == Cardinality({k \in DOMAIN gray : gray[k] <= i})
    IN  Return(h \o converted,
               [i \in DOMAIN frames |->
                   IF h[frames[i]].ch = 1 THEN Len(h) + rank(i) ELSE frames[i]])

\* blur_frames returning the blurred frames last to first
blur_frames_reversed(h, frames, ksize) ==
    Return(h \o [i \in DOMAIN frames |->
                    [h[frames[Len(frames) + 1 - i]] EXCEPT !.blur = Append(@, ksize)]],
           NewIds(h, Len(frames)))

\* blur_frames writing the blurred pixels back into the frames it was given
blur_frames_in_place(h, frames, ksize) ==
    Return([id \in DOMAIN h |->
               IF \E i \in DOMAIN frames : frames[i] = id
               THEN [h[id] EXCEPT !.blur = Append(@, ksize)]
               ELSE h[id]],
           frames)

blur_frames(h, frames, ksize) ==
    Return(h \o [i \in DOMAIN frames |->
                    [h[frames[i]] EXCEPT !.blur = Append(@, ksize)]],
           NewIds(h, Len(frames)))

\* the labels drawn into object id by one pass over the list
Drawn(frames, id, label) ==
    [k \in 1..Cardinality({i \in DOMAIN frames : frames[i] = id}) |-> label]

overlay_text(h, frames, text, position, color) ==
    Return([id \in DOMAIN h |->
               [h[id] EXCEPT !.text = @ \o Drawn(frames, id, <<text, position, color>>)]],
           frames)

\* --------------------------------------------------------- pipeline engine
\* func(frames, *args) for step = (func, *args)
Call(step, h, frames) ==
    LET func == step[1]
        args == Tail(step)
    IN  CASE func = "append_video" -> append_video(h, frames, args[1])
          [] func = "append_image" -> append_image(h, frames, args[1])
          [] func = "cut" -> cut(h, frames, args[1], args[2])
          [] func = "to_grayscale" -> to_grayscale(h, frames)
          [] func = "ensure_3channel" -> ensure_3channel(h, frames)
          [] func = "blur_frames" -> blur_frames(h, frames, args[1])
          [] func = "overlay_text" -> overlay_text(h, frames, args[1], args[2], args[3])

\* the loop running over the steps from the last to the first
StepAtReversed(steps, i) == steps[Len(steps) + 1 - i]

\* the step the for loop takes in its i-th iteration
StepAt(steps, i) == steps[i]

\* a loop that swallows the exception and goes on with the list it had
AfterCallSkipping(r, h, f, i) ==
    IF r.raised = "none"
    THEN [pc |-> "pipeline", idx |-> i + 1, heap |-> r.heap, frames |-> r.frames]
    ELSE [pc |-> "pipeline", idx |-> i + 1, heap |-> h, frames |-> f]

\* where the loop stands after the call of iteration i returned or raised r:
\* a returned list is bound to frames and the loop goes on, an exception
\* leaves apply_pipeline and main
AfterCall(r, h, f, i) ==
    IF r.raised = "none"
    THEN [pc |-> "pipeline", idx |-> i + 1, heap |-> r.heap, frames |-> r.frames]
    ELSE [pc |-> "aborted", idx |-> i, heap |-> h, frames |-> f]

\* ------------------------------------------------------------------ state
VARIABLES
    heap,         \* object id -> frame content
    frames,       \* the list bound to `frames` in apply_pipeline, then processed_frames
    pipeline,     \* the declared steps
    idx,          \* iteration of the for loop of apply_pipeline
    pc,           \* "pipeline", "save", "play", "loop", "done", "aborted"
    raised,       \* the exception that left main, "none" otherwise
    applied,      \* the steps announced by "Applying: ...", in order
    prev,         \* the list passed to the latest step
    prevHeap,     \* the heap when the latest step was called
    heap0,        \* the heap when apply_pipeline was called (its list is 1..Len(heap0))
    output,       \* what save_video did
    current,      \* play_video: index of the frame to show
    playing,      \* play_video: play / pause flag
    shown,        \* play_video: object id given to the latest imshow, 0 before
    key           \* play_video: latest key & 0xFF, 0 before

vars == <<heap, frames, pipeline, idx, pc, raised, applied, prev, prevHeap,
          heap0, output, current, playing, shown, key>>

sinkVars == <<output, current, playing, shown, key>>

\* ------------------------------------------------------------------ inputs
Args == -1..MaxArg

AppendSteps ==
    {<<"append_video", p>> : p \in VideoPaths}
    \cup {<<"append_image", p>> : p \in ImagePaths}

TransformSteps ==
    {<<"to_grayscale">>, <<"ensure_3channel">>,
     <<"blur_frames", <<9, 9>>>>,
     <<"overlay_text", "Cats", <<30, 60>>, <<255, 200, 200>>>>}

\* every cut with arguments in Args, negative ones included
CutSteps == {<<"cut", a, b>> : a \in Args, b \in Args}

\* the cuts of the mixed pipelines: one that raises, one inside the list,
\* one at the tail, one starting beyond a short list
MixedCuts == {<<"cut", -1, 0>>, <<"cut", 1, 1>>, <<"cut", 0, 2>>, <<"cut", 3, 0>>}

\* pipelines of up to MaxSteps steps of any kind
MixedPipelines ==
    UNION {[1..k -> AppendSteps \cup TransformSteps \cup MixedCuts] : k \in 0..MaxSteps}

\* every cut, alone or on the list an append returned
CutPipelines ==
    {<<c>> : c \in CutSteps} \cup {<<p, c>> : p \in AppendSteps, c \in CutSteps}

Pipelines == MixedPipelines \cup CutPipelines

\* frame lists of distinct frames tagged by their index, gray or BGR
InitialHeaps ==
    UNION {{[i \in 1..n |-> Frame(i - 1, ch[i])] : ch \in [1..n -> {1, 3}]} : n \in 0..MaxLen}

\* the scenario of 500 BGR frames and the first cut of main
ScenarioHeap == [i \in 1..500 |-> Frame(i - 1, 3)]
ScenarioPipeline == <<<<"cut", 300, 50>>>>

Inputs ==
    (InitialHeaps \X Pipelines) \cup {<<ScenarioHeap, ScenarioPipeline>>}

Ids(h) == [i \in 1..Len(h) |-> i]

Init ==
    \E in \in Inputs :
        /\ heap = in[1]
        /\ heap0 = in[1]
        /\ frames = Ids(in[1])
        /\ pipeline = in[2]
        /\ idx = 1
        /\ pc = "pipeline"
        /\ raised = "none"
        /\ applied = <<>>
        /\ prev = <<>>
        /\ prevHeap = <<>>
        /\ output = [warned |-> FALSE, makedirs |-> FALSE, writer |-> "none", file |-> <<>>]
        /\ current = 0
        /\ playing = FALSE
        /\ shown = 0
        /\ key = 0

\* ----------------------------------------------------------------- actions
\* one iteration of the for loop of apply_pipeline
ApplyStep ==
    /\ pc = "pipeline"
    /\ idx <= Len(pipeline)
    /\ LET step == StepAt(pipeline, idx)
           r == Call(step, heap, frames)
           after == AfterCall(r, heap, frames, idx)
       IN  /\ applied' = Append(applied, step)
           /\ prev' = frames
           /\ prevHeap' = heap
           /\ raised' = r.raised
           /\ pc' = after.pc
           /\ idx' = after.idx
           /\ heap' = after.heap
           /\ frames' = after.frames
    /\ UNCHANGED <<pipeline, heap0, sinkVars>>

\* the loop is exhausted: return frames, bound to processed_frames in main
PipelineReturn ==
    /\ pc = "pipeline"
    /\ idx > Len(pipeline)
    /\ pc' = "save"
    /\ UNCHANGED <<heap, frames, pipeline, idx, raised, applied, prev, prevHeap,
                   heap0, sinkVars>>

\* save_video without the test for an empty list
save_video_unguarded(h, f, out) ==
    [out EXCEPT !.makedirs = TRUE, !.writer = "released",
                !.file = [i \in DOMAIN f |-> h[f[i]]]]

\* what save_video leaves behind: the warning, or the directory, the
\* writer and the frames written to the file
save_video(h, f, out) ==
    IF f = <<>>
    THEN [out EXCEPT !.warned = TRUE]
    ELSE [out EXCEPT !.makedirs = TRUE, !.writer = "released",
                     !.file = [i \in DOMAIN f |-> h[f[i]]]]

\* save_video(processed_frames, "output.mp4")
SaveVideo ==
    /\ pc = "save"
    /\ output' = save_video(heap, frames, output)
    /\ pc' = "play"
    /\ UNCHANGED <<heap, frames, pipeline, idx, raised, applied, prev, prevHeap,
                   heap0, current, playing, shown, key>>

\* play_video(processed_frames) up to the while loop
PlayVideo ==
    /\ pc = "play"
    /\ IF frames = <<>>
       THEN /\ pc' = "done"
            /\ UNCHANGED <<current, playing>>
       ELSE /\ pc' = "loop"
            /\ current' = 0
            /\ playing' = TRUE
    /\ UNCHANGED <<heap, frames, pipeline, idx, raised, applied, prev, prevHeap,
                   heap0, output, shown, key>>

ESC == 27
SPACE == 32
LEFT == 81
RIGHT == 83
NOKEY == 255     \* waitKey returns -1 when no key was pressed; -1 & 0xFF
OTHERKEY == 97

Keys == {ESC, SPACE, LEFT, RIGHT, NOKEY, OTHERKEY}

\* on_key with the auto-advance stopping at the last frame
on_key_stopping_at_end(k, cur, play, n) ==
    IF k = ESC
    THEN [break |-> TRUE, current |-> cur, playing |-> play]
    ELSE LET playing1 == IF k = SPACE THEN ~play ELSE play
             current1 == CASE k = LEFT -> Max(0, cur - 1)
                           [] k = RIGHT -> Min(n - 1, cur + 1)
                           [] OTHER -> cur
         IN  [break |-> FALSE,
              current |-> IF playing1 THEN Min(n - 1, current1 + 1) ELSE current1,
              playing |-> playing1]

\* on_key advancing whatever the play / pause flag says
on_key_always_advancing(k, cur, play, n) ==
    IF k = ESC
    THEN [break |-> TRUE, current |-> cur, playing |-> play]
    ELSE LET playing1 == IF k = SPACE THEN ~play ELSE play
             current1 == CASE k = LEFT -> Max(0, cur - 1)
                           [] k = RIGHT -> Min(n - 1, cur + 1)
                           [] OTHER -> cur
         IN  [break |-> FALSE,
              current |-> (current1 + 1) % n,
              playing |-> playing1]

\* on_key leaving the loop on any key that is bound to no command
on_key_quitting_on_other(k, cur, play, n) ==
    IF k \notin {SPACE, LEFT, RIGHT, NOKEY}
    THEN [break |-> TRUE, current |-> cur, playing |-> play]
    ELSE LET playing1 == IF k = SPACE THEN ~play ELSE play
             current1 == CASE k = LEFT -> Max(0, cur - 1)
                           [] k = RIGHT -> Min(n - 1, cur + 1)
                           [] OTHER -> cur
         IN  [break |-> FALSE,
              current |-> IF playing1 THEN (current1 + 1) % n ELSE current1,
              playing |-> playing1]

\* on_key stepping without the max / min clamps
on_key_unclamped(k, cur, play, n) ==
    IF k = ESC
    THEN [break |-> TRUE, current |-> cur, playing |-> play]
    ELSE LET playing1 == IF k = SPACE THEN ~play ELSE play
             current1 == CASE k = LEFT -> cur - 1
                           [] k = RIGHT -> cur + 1
                           [] OTHER -> cur
         IN  [break |-> FALSE,
              current |-> IF playing1 THEN (current1 + 1) % n ELSE current1,
              playing |-> playing1]

\* the if / elif chain on key and the auto-advance that follows it, for a
\* list of n frames: whether the loop breaks, and current and playing after
on_key(k, cur, play, n) ==
    IF k = ESC
    THEN [break |-> TRUE, current |-> cur, playing |-> play]
    ELSE LET playing1 == IF k = SPACE THEN ~play ELSE play
             current1 == CASE k = LEFT -> Max(0, cur - 1)
                           [] k = RIGHT -> Min(n - 1, cur + 1)
                           [] OTHER -> cur
         IN  [break |-> FALSE,
              current |-> IF playing1 THEN (current1 + 1) % n ELSE current1,
              playing |-> playing1]

\* one iteration of the while loop of play_video
Tick ==
    /\ pc = "loop"
    /\ shown' = frames[current + 1]
    /\ \E k \in Keys :
        LET after == on_key(k, current, playing, Len(frames))
        IN  /\ key' = k
            /\ pc' = IF after.break THEN "done" ELSE "loop"
            /\ current' = after.current
            /\ playing' = after.playing
    /\ UNCHANGED <<heap, frames, pipeline, idx, raised, applied, prev, prevHeap,
                   heap0, output>>

Next ==
    \/ ApplyStep
    \/ PipelineReturn
    \/ SaveVideo
    \/ PlayVideo
    \/ Tick

Spec == Init /\ [][Next]_vars

TypeOK ==
    /\ pc \in {"pipeline", "save", "play", "loop", "done", "aborted"}
    /\ raised \in {"none", "AssertionError", "cv2.error"}
    /\ \A i \in DOMAIN frames : frames[i] \in DOMAIN heap
    /\ idx \in 1..(Len(pipeline) + 1)

\* ------------------------------------------------------------ properties
\* the latest step announced, and its arguments
Stepped == applied # <<>>
last == applied[Len(applied)]
LastIs(func) == Stepped /\ last[1] = func
Returned == pc \in {"save", "play", "loop", "done"}
Tags(h, f) == [i \in DOMAIN f |-> h[f[i]].tag]

\* the left fold of the steps over (h, frames), stopping at a raise
RECURSIVE Fold(_, _, _)
Fold(steps, h, f) ==
    IF steps = <<>>
    THEN Return(h, f)
    ELSE LET r == Call(Head(steps), h, f)
         IN  IF r.raised = "none" THEN Fold(Tail(steps), r.heap, r.frames) ELSE r

\* C1: the steps are applied once each in declared order, every step on the
\* list the previous one returned: the steps announced so far are a prefix
\* of the pipeline, the current list is the left fold of that prefix over
\* the initial list, and the list returned is the fold of the whole pipeline.
C1_DeclaredOrderFold ==
    /\ Len(applied) <= Len(pipeline)
    /\ applied = SubSeq(pipeline, 1, Len(applied))
    /\ raised = "none" =>
          LET r == Fold(applied, heap0, Ids(heap0))
          IN  r.raised = "none" /\ frames = r.frames /\ heap = r.heap
    /\ Returned => applied = pipeline

\* a run of two steps [A, B] that returned B(A(initial)), which differs
\* from A(B(initial))
C1_Witness ==
    /\ Returned
    /\ Len(pipeline) = 2
    /\ LET ba == Fold(pipeline, heap0, Ids(heap0))
           ab == Fold(<<pipeline[2], pipeline[1]>>, heap0, Ids(heap0))
       IN  /\ ab.raised = "none"
           /\ Tags(ab.heap, ab.frames) # Tags(ba.heap, ba.frames)
           /\ frames = ba.frames

\* C2: for 0 <= start <= n and count >= 0, cut returns s[0:begin] ++ s[end:n]
\* with end = n - start and begin = max(0, end - count): the last start
\* frames and the first begin frames stay, in order, and the
\* min(count, n - start) frames before the last start frames go.
C2_CutWindowFromTail ==
    (LastIs("cut") /\ last[2] >= 0 /\ last[2] <= Len(prev) /\ last[3] >= 0) =>
        LET n == Len(prev)
            end == n - last[2]
            begin == IF end - last[3] > 0 THEN end - last[3] ELSE 0
            removed == IF last[3] < n - last[2] THEN last[3] ELSE n - last[2]
        IN  /\ raised = "none"
            /\ Len(frames) = n - removed
            /\ \A i \in 1..begin : frames[i] = prev[i]
            /\ \A j \in 1..last[2] : frames[begin + j] = prev[end + j]
            /\ heap = prevHeap

\* a cut that keeps frames on both sides of a non-empty window
C2_Witness ==
    /\ LastIs("cut")
    /\ last[2] >= 1
    /\ last[3] >= 1
    /\ Len(prev) - last[2] - last[3] >= 1
    /\ Len(frames) = Len(prev) - last[3]

\* C3: for all non-negative start and count,
\* len(cut(s, start, count)) = n - (min(n, max(0, n - start))
\*                                  - max(0, max(0, n - start) - count)).
C3_CutLength ==
    (LastIs("cut") /\ last[2] >= 0 /\ last[3] >= 0) =>
        LET n == Len(prev)
            e == Max(0, n - last[2])
        IN  Len(frames) = n - (Min(n, e) - Max(0, e - last[3]))

\* C4: for start > len(s) and count >= 0, cut keeps every frame, in order.
C4_CutStartBeyondLength ==
    (LastIs("cut") /\ last[2] > Len(prev) /\ last[3] >= 0) =>
        (raised = "none" /\ frames = prev)

\* C5: cut raises exactly when start < 0 or count < 0; a raising cut binds
\* no list and ends the run, and a cut with non-negative arguments returns.
C5_CutPrecondition ==
    LastIs("cut") =>
        /\ (raised # "none") <=> (last[2] < 0 \/ last[3] < 0)
        /\ raised # "none" =>
              (raised = "AssertionError" /\ pc = "aborted" /\ frames = prev)
        /\ raised = "none" => (pc # "aborted" /\ Len(frames) <= Len(prev))

\* a cut with a negative argument on a non-empty list
C5_Witness ==
    /\ LastIs("cut")
    /\ (last[2] < 0 \/ last[3] < 0)
    /\ prev # <<>>
    /\ raised = "AssertionError"

InitialOutput == [warned |-> FALSE, makedirs |-> FALSE, writer |-> "none", file |-> <<>>]

\* C6: a step that raises ends the run: it is the last step announced, no
\* later step is called and none is skipped, apply_pipeline returns no list,
\* save_video and play_video are not reached, and nothing runs afterwards.
C6_FailingStepAborts ==
    raised # "none" =>
        /\ pc = "aborted"
        /\ idx = Len(applied)
        /\ applied = SubSeq(pipeline, 1, idx)
        /\ Fold(SubSeq(pipeline, 1, idx - 1), heap0, Ids(heap0)).raised = "none"
        /\ frames = prev
        /\ output = InitialOutput
        /\ shown = 0
        /\ ~ENABLED Next

\* a cut with a negative argument raised while a later step was declared
C6_Witness ==
    /\ pc = "aborted"
    /\ raised = "AssertionError"
    /\ idx < Len(pipeline)
    /\ frames # <<>>

\* the step is an append whose source cannot be opened
SourceUnavailable(step) ==
    \/ step[1] = "append_video" /\ ~VideoCapture(step[2]).isOpened
    \/ step[1] = "append_image" /\ imread(step[2]).isNone

\* C7: an append whose source cannot be opened returns the list it was
\* given, with the same frames, raises nothing, and the loop goes on to the
\* next step; an empty initial list, append_video on a missing path and a
\* cut with non-negative arguments return the empty list.
C7_SourceUnavailableContinues ==
    /\ (Stepped /\ SourceUnavailable(last)) =>
          /\ raised = "none"
          /\ frames = prev
          /\ heap = prevHeap
          /\ pc # "aborted"
          /\ idx = Len(applied) + 1
    /\ (Stepped /\ SourceUnavailable(last) /\ Len(applied) < Len(pipeline)) =>
          (pc = "pipeline" /\ ENABLED ApplyStep)
    /\ (/\ heap0 = <<>>
        /\ Len(pipeline) = 2
        /\ pipeline[1] = <<"append_video", "missing.webm">>
        /\ pipeline[2][1] = "cut" /\ pipeline[2][2] >= 0 /\ pipeline[2][3] >= 0) =>
          (pc # "aborted" /\ frames = <<>> /\ (pc = "done" => applied = pipeline))

\* a non-empty list went through an append on a missing source and then
\* through a later step, and the run returned
C7_Witness ==
    /\ Returned
    /\ Len(applied) = 2
    /\ SourceUnavailable(applied[1])
    /\ heap0 # <<>>
    /\ prev = Ids(heap0)
    /\ frames # prev

\* the frames decoded by an append step whose source opens
Decoded(step) ==
    IF step[1] = "append_video" THEN VideoCapture(step[2]).read ELSE imread(step[2]).img

\* C8: an append whose source opens returns s ++ f: the frames of s at
\* their indices, then the decoded frames in decode order; the length is
\* len(s) + len(f), s comes back for an empty f, and append_image adds one.
C8_AppendAtTail ==
    (Stepped /\ last[1] \in {"append_video", "append_image"} /\ ~SourceUnavailable(last)) =>
        LET f == Decoded(last)
        IN  /\ raised = "none"
            /\ Len(frames) = Len(prev) + Len(f)
            /\ \A i \in DOMAIN prev :
                  frames[i] = prev[i] /\ heap[frames[i]] = prevHeap[prev[i]]
            /\ \A j \in DOMAIN f :
                  /\ heap[frames[Len(prev) + j]] = f[j]
                  /\ frames[Len(prev) + j] \notin DOMAIN prevHeap
            /\ f = <<>> => frames = prev
            /\ last[1] = "append_image" => Len(f) = 1

\* two decoded frames were appended to a non-empty list
C8_Witness ==
    /\ LastIs("append_video")
    /\ prev # <<>>
    /\ Len(frames) = Len(prev) + 2
    /\ heap[frames[Len(frames)]].tag = 101

\* the frames of the list passed to the latest step are as they were
InputUntouched == \A i \in DOMAIN prev : heap[prev[i]] = prevHeap[prev[i]]

\* C9, as claimed: after any operation returns, the frames of the list that
\* was passed in have the contents they had before the call.
C9_EveryOperationPure ==
    (Stepped /\ raised = "none") => InputUntouched

\* C9, amended: every operation other than overlay_text leaves the frames
\* of its input as they were; overlay_text returns the list it was given
\* and has drawn its label into each of its frames, changing nothing else.
C9_PureExceptOverlayText ==
    (Stepped /\ raised = "none") =>
        /\ last[1] # "overlay_text" => InputUntouched
        /\ last[1] = "overlay_text" =>
              /\ frames = prev
              /\ Len(heap) = Len(prevHeap)
              /\ \A i \in DOMAIN prev :
                    /\ heap[prev[i]] # prevHeap[prev[i]]
                    /\ [heap[prev[i]] EXCEPT !.text = <<>>]
                          = [prevHeap[prev[i]] EXCEPT !.text = <<>>]

\* ensure_3channel ran on a list mixing 2-D and BGR frames: the result
\* shares the BGR objects with the input
C9_Witness ==
    /\ LastIs("ensure_3channel")
    /\ \E i, j \in DOMAIN prev :
          /\ prevHeap[prev[i]].ch = 1
          /\ prevHeap[prev[j]].ch = 3
          /\ frames[j] = prev[j]
          /\ frames[i] # prev[i]

TagSet(h, f) == {h[f[i]].tag : i \in DOMAIN f}
Scenario == heap0 = ScenarioHeap /\ applied = ScenarioPipeline /\ raised = "none"

\* C10, as claimed: on 500 frames tagged 0..499, cut(300, 50) leaves 450
\* frames and the surviving tags are {0..149} and {450..499}.
C10_ScenarioAsClaimed ==
    Scenario =>
        /\ Len(frames) = 450
        /\ TagSet(heap, frames) = (0..149) \cup (450..499)

\* C10, amended: on 500 frames tagged 0..499, cut(300, 50) removes frames
\* [150:200), leaving 450 frames, and the surviving tags are {0..149} and
\* {200..499}, in their original order.
C10_ScenarioRemoves150To200 ==
    Scenario =>
        /\ Len(frames) = 450
        /\ TagSet(heap, frames) = (0..149) \cup (200..499)
        /\ \A i \in 1..449 : heap[frames[i]].tag < heap[frames[i + 1]].tag

C10_Witness ==
    /\ Scenario
    /\ Returned
    /\ Len(prev) = 500
    /\ Len(frames) = 450

\* the per-frame transforms
Transforms == {"to_grayscale", "ensure_3channel", "blur_frames", "overlay_text"}

\* the frame a transform step makes of a frame with content c
Transformed(step, c) ==
    CASE step[1] = "to_grayscale" -> [c EXCEPT !.ch = 1]
      [] step[1] = "ensure_3channel" -> [c EXCEPT !.ch = 3]
      [] step[1] = "blur_frames" -> [c EXCEPT !.blur = Append(@, step[2])]
      [] step[1] = "overlay_text" -> [c EXCEPT !.text = Append(@, Tail(step))]

C12_Ensure3ChannelIdempotent ==
    /\ LastIs("ensure_3channel") =>
          /\ raised = "none"
          /\ Len(frames) = Len(prev)
          /\ \A i \in DOMAIN prev :
                /\ heap[frames[i]].ch = 3
                /\ prevHeap[prev[i]].ch = 3 =>
                      (frames[i] = prev[i] /\ heap[frames[i]] = prevHeap[prev[i]])
    /\ (/\ Len(applied) >= 2
        /\ last[1] = "ensure_3channel"
        /\ applied[Len(applied) - 1][1] = "ensure_3channel") =>
          /\ Len(frames) = Len(prev)
          /\ \A i \in DOMAIN prev : heap[frames[i]] = prevHeap[prev[i]]

\* ensure_3channel ran twice on a list that mixed 2-D and BGR frames
C12_Witness ==
    /\ applied = <<<<"ensure_3channel">>, <<"ensure_3channel">>>>
    /\ \E i, j \in DOMAIN heap0 : heap0[i].ch = 1 /\ heap0[j].ch = 3
    /\ frames = prev
    /\ frames # Ids(heap0)

\* C13: cut(s, 0, 0) returns the frames of s in their order, also for the
\* empty list.
C13_CutZeroZeroIdentity ==
    (LastIs("cut") /\ last[2] = 0 /\ last[3] = 0) =>
        (raised = "none" /\ frames = prev /\ heap = prevHeap)

\* cut(0, 0) ran on a list of two frames or more
C13_Witness ==
    /\ LastIs("cut")
    /\ last[2] = 0
    /\ last[3] = 0
    /\ Len(prev) >= 2
    /\ frames = prev

\* save_video has been called and has returned
Saved == pc \in {"play", "loop", "done"}

\* C14: save_video on an empty list warns, creates no directory, opens no
\* writer, writes no file and returns to main, which goes on to play_video;
\* a file is written only for a non-empty list, and then with its frames.
C14_EmptySequenceNotSaved ==
    /\ (Saved /\ frames = <<>>) =>
          /\ output = [InitialOutput EXCEPT !.warned = TRUE]
          /\ raised = "none"
    /\ (output.makedirs \/ output.writer # "none" \/ output.file # <<>>) =>
          (Saved /\ frames # <<>>)
    /\ (Saved /\ frames # <<>>) =>
          /\ ~output.warned
          /\ output.file = [i \in DOMAIN frames |-> heap[frames[i]]]

\* a pipeline that cut every frame away returned, and save_video ran
C14_Witness ==
    /\ pc = "done"
    /\ heap0 # <<>>
    /\ frames = <<>>
    /\ output.warned
    /\ output.file = <<>>

\* a tick of the viewer loop starts here, in Playing or in Paused
StartsPlaying == pc = "loop" /\ playing
StartsPaused == pc = "loop" /\ ~playing
NoCommand == {NOKEY, OTHERKEY}

\* C15, as claimed: a tick that starts in Playing and receives no key,
\* toggle, step backward or step forward leaves the index at
\* (index before + 1) mod len(frames).
C15_PlayingAdvancesOnAnyCommand ==
    [][(StartsPlaying /\ key' \in {NOKEY, SPACE, LEFT, RIGHT}) =>
          current' = (current + 1) % Len(frames)]_vars

\* C15, amended: a tick that starts in Playing and receives no command
\* advances the index by one, wrapping to 0 after the last frame, and stays
\* in Playing; toggle pauses and leaves the index where it was; a step
\* backward or forward moves the index within the list first and the
\* advance by one, with the wrap, follows it.
C15_PlayingAdvancesWithoutCommand ==
    [][StartsPlaying =>
          /\ key' \in NoCommand =>
                (current' = (current + 1) % Len(frames) /\ playing')
          /\ key' = SPACE => (current' = current /\ ~playing')
          /\ key' = LEFT =>
                current' = (IF current = 0 THEN 1 ELSE current) % Len(frames)
          /\ key' = RIGHT =>
                current' = (IF current >= Len(frames) - 2 THEN 0 ELSE current + 2)]_vars

\* a tick in Playing without a key showed the last frame and wrapped to 0
C15_Witness ==
    /\ pc = "loop"
    /\ playing
    /\ key = NOKEY
    /\ Len(frames) >= 2
    /\ shown = frames[Len(frames)]
    /\ current = 0

\* C16, as claimed: a tick that starts in Paused and receives no key or
\* toggle leaves the index as it was.
C16_PausedKeepsIndexOnToggle ==
    [][(StartsPaused /\ key' \in {NOKEY, SPACE}) => current' = current]_vars

\* C16, amended: a tick that starts in Paused and receives no command
\* leaves the index as it was and stays in Paused; toggle switches to
\* Playing and the index advances by one in that tick, wrapping to 0; a
\* step backward or forward moves the index by one within the list.
C16_PausedKeepsIndexWithoutCommand ==
    [][StartsPaused =>
          /\ key' \in NoCommand => (current' = current /\ ~playing')
          /\ key' = SPACE =>
                (current' = (current + 1) % Len(frames) /\ playing')
          /\ key' = LEFT =>
                current' = (IF current = 0 THEN 0 ELSE current - 1)
          /\ key' = RIGHT =>
                current' = (IF current = Len(frames) - 1 THEN current ELSE current + 1)]_vars

\* a tick in Paused without a key showed a frame past the first and stayed
C16_Witness ==
    /\ pc = "loop"
    /\ ~playing
    /\ key = NOKEY
    /\ current >= 1
    /\ shown = frames[current + 1]

\* C17: the loop ends in the tick that receives ESC and in no other, from
\* Playing and from Paused, with the index and the flag as they were, and
\* nothing runs after the loop has ended.
C17_StoppedOnlyOnExit ==
    /\ [][pc = "loop" =>
            /\ (pc' = "done") <=> (key' = ESC)
            /\ pc' = "done" => (current' = current /\ playing' = playing)
            /\ pc' \in {"loop", "done"}]_vars
    /\ [][pc # "done"]_vars

\* ESC ended the loop while Paused on a frame past the first
C17_Witness ==
    /\ pc = "done"
    /\ key = ESC
    /\ ~playing
    /\ current >= 1
    /\ shown = frames[current + 1]

\* C18: in the loop the list is not empty and 0 <= current < len(frames),
\* so every frame shown is a frame of the list; an empty list never enters
\* the loop.
C18_CurrentInRange ==
    /\ pc = "loop" =>
          (frames # <<>> /\ current >= 0 /\ current < Len(frames))
    /\ shown # 0 => \E i \in DOMAIN frames : frames[i] = shown
    /\ frames = <<>> => (pc # "loop" /\ shown = 0 /\ key = 0)

\* a step backward arrived while Paused at index 0
C18_Witness ==
    /\ pc = "loop"
    /\ key = LEFT
    /\ ~playing
    /\ current = 0
    /\ shown = frames[1]
    /\ Len(frames) >= 2

NoDuplicates(a) == \A i, j \in DOMAIN a : a[i] = a[j] => i = j
PositionIn(b, x) == CHOOSE j \in DOMAIN b : b[j] = x

\* a is b with some elements left out, for a list b that holds no object
\* twice: every element of a is in b, at a later position than the one
\* before it
IsSubsequence(a, b) ==
    /\ NoDuplicates(b)
    /\ \A i \in DOMAIN a : \E j \in DOMAIN b : b[j] = a[i]
    /\ \A i \in 1..(Len(a) - 1) : PositionIn(b, a[i]) < PositionIn(b, a[i + 1])

OnlyCuts == \A k \in DOMAIN applied : applied[k][1] = "cut"

\* C19: for non-negative start and count, also with start > len(s), the
\* list cut returns is a subsequence of s in the order of s, with no frame
\* twice and none changed, and after a run of cut steps alone the current
\* list is such a subsequence of the initial list.
C19_CutGivesSubsequence ==
    /\ (LastIs("cut") /\ raised = "none" /\ pc = "pipeline") =>
          /\ IsSubsequence(frames, prev)
          /\ Len(frames) <= Len(prev)
          /\ NoDuplicates(frames)
          /\ heap = prevHeap
    /\ (OnlyCuts /\ pc = "pipeline") =>
          /\ IsSubsequence(frames, Ids(heap0))
          /\ NoDuplicates(frames)
          /\ heap = heap0

\* two cuts in a row, the first with start beyond the length of the list,
\* left some frames of the initial list and removed others
C19_Witness ==
    /\ Len(applied) = 2
    /\ OnlyCuts
    /\ raised = "none"
    /\ applied[1][2] > Len(heap0)
    /\ frames # <<>>
    /\ Len(frames) < Len(heap0)

====
